---- MODULE Spec2Model ----
(***************************************************************************)
(* The six OpenAI task nodes of autotask_openai (text generation, image    *)
(* generation, image recognition, video recognition, speech to text, text  *)
(* to speech).  Every node has one operation, execute(node_inputs,         *)
(* workflow_logger); an invocation of it is a frame that walks through the *)
(* statements of the method.  The file system is the only state an         *)
(* invocation shares with another.                                         *)
(*                                                                         *)
(* Python str values are sequences of chunks: "" is << >>, + and f-string  *)
(* interpolation are \o.  Image references are spelled character by        *)
(* character so that startswith is a real prefix test; paths are spelled   *)
(* component by component with "/" as a chunk of its own.                  *)
(***************************************************************************)
EXTENDS Integers, Sequences, FiniteSets, TLC

VARIABLES
    frame,  \* frame[i]: the i-th invocation of execute (position, locals, effects)
    fs      \* the file system: absolute path -> entry

vars == <<frame, fs>>

(***************************************************************************)
(* Bounds                                                                  *)
(***************************************************************************)
\* Number of invocations the host may have in flight at once.
NumInv == 2

Calls == 1..NumInv

(***************************************************************************)
(* Python values                                                           *)
(***************************************************************************)
None == [none |-> TRUE]

EmptyDict == << >>

\* bool(s) of a str
Truthy(s) == Len(s) > 0

\* str.startswith(p)
startswith(s, p) == Len(s) >= Len(p) /\ SubSeq(s, 1, Len(p)) = p

\* A dict from a record of options: {} leaves the key out, {v} sets it.
MkDict(opt) ==
    [k \in {k \in DOMAIN opt : opt[k] # {}} |-> CHOOSE v \in opt[k] : TRUE]

\* dict.get(key, default)
DictGet(d, key, default) == IF key \in DOMAIN d THEN d[key] ELSE default

\* An exception object: its class and str(e).
Exc(type, text) == [type |-> type, text |-> text]

NoExc == Exc("none", << >>)

\* str(KeyError(key)) is the repr of the key.
KeyError(key) == Exc("KeyError", <<"'", key, "'">>)

\* The classes that derive from Exception; the rest derive from BaseException only.
ExceptionClasses ==
    {"KeyError", "ValueError", "IndexError", "AttributeError", "OpenAIError",
     "APIConnectionError", "HTTPError", "FileNotFoundError", "IsADirectoryError",
     "NotADirectoryError", "FileExistsError", "RuntimeError"}

(***************************************************************************)
(* os.path and the file system                                             *)
(***************************************************************************)
Cwd == <<"/", "cwd">>

isabs(p) == Len(p) > 0 /\ p[1] = "/"

\* os.path.abspath: join with the working directory (no "." or ".." occur).
abspath(p) ==
    IF isabs(p) THEN p
    ELSE IF p = << >> THEN Cwd
    ELSE Cwd \o <<"/">> \o p

LastSlash(p) ==
    LET S == {k \in 1..Len(p) : p[k] = "/"}
    IN  IF S = {} THEN 0 ELSE CHOOSE k \in S : \A j \in S : j <= k

\* os.path.dirname
dirname(p) ==
    LET k == LastSlash(p)
    IN  IF k = 0 THEN << >>
        ELSE IF k = 1 THEN <<"/">>
        ELSE SubSeq(p, 1, k - 1)

\* The directories on the way to absolute path p, root first, p last.
Lineage(p) ==
    {SubSeq(p, 1, k) : k \in {k \in 1..Len(p) :
        k = 1 \/ (p[k] # "/" /\ (k = Len(p) \/ p[k + 1] = "/"))}}

NoEntry == [kind |-> "none", bytes |-> << >>]
DirEntry == [kind |-> "dir", bytes |-> << >>]
FileEntry(bytes) == [kind |-> "file", bytes |-> bytes]

Lookup(files, ap) == IF ap \in DOMAIN files THEN files[ap] ELSE NoEntry

\* open(path, "rb").read(): [exc, bytes]
ReadFile(files, path) ==
    LET e == Lookup(files, abspath(path))
    IN  IF path = << >> \/ e.kind = "none"
        THEN [exc |-> Exc("FileNotFoundError", <<"No such file or directory: ">> \o path),
              bytes |-> << >>]
        ELSE IF e.kind = "dir"
        THEN [exc |-> Exc("IsADirectoryError", <<"Is a directory: ">> \o path),
              bytes |-> << >>]
        ELSE [exc |-> NoExc, bytes |-> e.bytes]

\* open(path, "wb").write(bytes): [exc, files]
WriteFile(files, path, bytes) ==
    LET ap == abspath(path)
        parent == Lookup(files, dirname(ap))
    IN  IF path = << >> \/ parent.kind = "none"
        THEN [exc |-> Exc("FileNotFoundError", <<"No such file or directory: ">> \o path),
              files |-> files]
        ELSE IF parent.kind = "file"
        THEN [exc |-> Exc("NotADirectoryError", <<"Not a directory: ">> \o path),
              files |-> files]
        ELSE IF Lookup(files, ap).kind = "dir"
        THEN [exc |-> Exc("IsADirectoryError", <<"Is a directory: ">> \o path),
              files |-> files]
        ELSE [exc |-> NoExc, files |-> [files EXCEPT ![ap] = FileEntry(bytes)]]

\* Mutant: exist_ok=True is missing, an existing directory is an error.
makedirs_NoExistOk(files, d) ==
    IF d = << >>
    THEN [exc |-> Exc("FileNotFoundError", <<"No such file or directory: ''">>),
          files |-> files]
    ELSE IF Lookup(files, d).kind # "none"
    THEN [exc |-> Exc("FileExistsError", <<"File exists: ">> \o d), files |-> files]
    ELSE IF \E a \in Lineage(d) : Lookup(files, a).kind = "file"
    THEN [exc |-> Exc("NotADirectoryError", <<"Not a directory: ">> \o d), files |-> files]
    ELSE [exc |-> NoExc,
          files |-> [a \in DOMAIN files |->
                       IF a \in Lineage(d) THEN DirEntry ELSE files[a]]]

\* os.makedirs(d, exist_ok=True): [exc, files]
makedirs(files, d) ==
    IF d = << >>
    THEN [exc |-> Exc("FileNotFoundError", <<"No such file or directory: ''">>),
          files |-> files]
    ELSE IF Lookup(files, d).kind = "file"
    THEN [exc |-> Exc("FileExistsError", <<"File exists: ">> \o d), files |-> files]
    ELSE IF \E a \in Lineage(d) : Lookup(files, a).kind = "file"
    THEN [exc |-> Exc("NotADirectoryError", <<"Not a directory: ">> \o d), files |-> files]
    ELSE [exc |-> NoExc,
          files |-> [a \in DOMAIN files |->
                       IF a \in Lineage(d) THEN DirEntry ELSE files[a]]]

\* The paths the invocations name.
FileX == <<"in", "/", "x">>
FileY == <<"in", "/", "y">>
OutA == <<"art", "/", "a">>
OutB == <<"/", "new", "/", "b">>
OutC == <<"c">>
OutD == <<"out">>
OutE == <<"in", "/", "x", "/", "e">>
OutT == <<"art", "/", "t">>
OutArt == <<"art">>

ManBytes == <<77, 97, 110>>
HiBytes == <<104, 105>>

FsPaths ==
    UNION {Lineage(abspath(p)) : p \in {FileX, FileY, OutA, OutB, OutC, OutD, OutE, OutT, OutArt}}

\* Before any invocation: the working directory holds in/x, in/y and an empty out/;
\* art/ and /new do not exist.
InitFiles ==
    [a \in FsPaths |->
        IF a \in {<<"/">>, Cwd, abspath(<<"in">>), abspath(OutD)} THEN DirEntry
        ELSE IF a = abspath(FileX) THEN FileEntry(ManBytes)
        ELSE IF a = abspath(FileY) THEN FileEntry(HiBytes)
        ELSE NoEntry]

(***************************************************************************)
(* base64.b64encode(...).decode("utf-8")                                   *)
(***************************************************************************)
B64Alphabet ==
    <<"A", "B", "C", "D", "E", "F", "G", "H", "I", "J", "K", "L", "M",
      "N", "O", "P", "Q", "R", "S", "T", "U", "V", "W", "X", "Y", "Z",
      "a", "b", "c", "d", "e", "f", "g", "h", "i", "j", "k", "l", "m",
      "n", "o", "p", "q", "r", "s", "t", "u", "v", "w", "x", "y", "z",
      "0", "1", "2", "3", "4", "5", "6", "7", "8", "9", "+", "/">>

B64Char(n) == B64Alphabet[n + 1]

RECURSIVE b64encode(_)
b64encode(bs) ==
    IF Len(bs) = 0 THEN << >>
    ELSE IF Len(bs) = 1
    THEN <<B64Char(bs[1] \div 4), B64Char((bs[1] % 4) * 16), "=", "=">>
    ELSE IF Len(bs) = 2
    THEN <<B64Char(bs[1] \div 4),
           B64Char((bs[1] % 4) * 16 + bs[2] \div 16),
           B64Char((bs[2] % 16) * 4), "=">>
    ELSE <<B64Char(bs[1] \div 4),
           B64Char((bs[1] % 4) * 16 + bs[2] \div 16),
           B64Char((bs[2] % 16) * 4 + bs[3] \div 64),
           B64Char(bs[3] % 64)>> \o b64encode(SubSeq(bs, 4, Len(bs)))

(***************************************************************************)
(* The host's collaborators: configuration resolver, remote endpoints      *)
(***************************************************************************)
CfgGood == <<"cfg1">>
CfgNoParams == <<"cfg2">>
CfgUnknown == <<"nope">>

\* autotask.llm.get_llm_config_by_id: the record of a known id, None otherwise.
get_llm_config_by_id(id) ==
    IF id = CfgGood
    THEN [llm_name |-> <<"model-a">>,
          typed |-> [api_key |-> <<"sk">>, base_url |-> <<"https://api">>]]
    ELSE IF id = CfgNoParams
    THEN [llm_name |-> <<"model-b">>, typed |-> None]
    ELSE None

\* LLMConfig.get_typed_parameters
get_typed_parameters(llm_config) == llm_config.typed

\* What the remote endpoints answer when nothing fails.
CompletionText == <<"cherry blossoms fall">>
TranscriptText == <<"hello world">>
GeneratedImageUrl == <<"h", "t", "t", "p", "s", ":", "/", "/", "c", "d", "n">>
ImageBytes == <<1, 2, 3>>
AudioBytes == <<9>>

(***************************************************************************)
(* The nodes                                                               *)
(***************************************************************************)
TextGeneration == "TextGenerationNode"
ImageGeneration == "ImageGenerationNode"
ImageRecognition == "ImageRecognitionNode"
VideoRecognition == "VideoRecognitionNode"
SpeechToText == "SpeechToTextNode"
TextToSpeech == "TextToSpeechNode"

Nodes ==
    {TextGeneration, ImageGeneration, ImageRecognition, VideoRecognition,
     SpeechToText, TextToSpeech}

FileProducing == {ImageGeneration, TextToSpeech}

\* OUTPUTS: the key under which a node returns its result.
OutputKey(node) ==
    CASE node = TextGeneration -> "generated_text"
      [] node = ImageGeneration -> "image_path"
      [] node = ImageRecognition -> "description"
      [] node = VideoRecognition -> "description"
      [] node = SpeechToText -> "transcription"
      [] node = TextToSpeech -> "audio_path"

\* The prefix of the error message in each node's except clause.
ErrorPrefix(node) ==
    CASE node = TextGeneration -> "Text generation failed: "
      [] node = ImageGeneration -> "Image generation failed: "
      [] node = ImageRecognition -> "Image recognition failed: "
      [] node = VideoRecognition -> "Video recognition failed: "
      [] node = SpeechToText -> "Speech to text conversion failed: "
      [] node = TextToSpeech -> "Text to speech conversion failed: "

\* The keys execute reads with node_inputs[key], in the order it reads them.
RequiredKeys(node) ==
    CASE node = TextGeneration -> <<"prompt", "llm_config_id">>
      [] node = ImageGeneration -> <<"prompt", "size", "output_file", "llm_config_id">>
      [] node = ImageRecognition -> <<"image_path", "prompt", "llm_config_id">>
      [] node = VideoRecognition -> <<"prompt", "llm_config_id">>
      [] node = SpeechToText -> <<"audio_file", "llm_config_id">>
      [] node = TextToSpeech -> <<"text", "voice", "output_file", "llm_config_id">>

\* Defaults of the optional inputs (dict.get's second argument).
DefaultSystemPrompt == <<"You are a helpful and creative assistant.">>
DefaultMaxTokens == 1000
\* temperature is counted in tenths: 7 is 0.7
DefaultTemperature == 7
DefaultQuality == <<"standard">>
DefaultStyle == <<"vivid">>

\* range(1, 9) of _get_valid_image_paths
NumFrameSlots == 8

ImgKey(n) == <<"img1", "img2", "img3", "img4", "img5", "img6", "img7", "img8">>[n]

(***************************************************************************)
(* VideoRecognitionNode helpers                                            *)
(***************************************************************************)
HttpPrefix == <<"h", "t", "t", "p", ":", "/", "/">>
HttpsPrefix == <<"h", "t", "t", "p", "s", ":", "/", "/">>
DataUrlPrefix == <<"data:image/jpeg;base64,">>

\* Mutant: only 'http://' is recognised.
IsRemote_HttpOnly(image_path) == startswith(image_path, HttpPrefix)

\* image_path.startswith(('http://', 'https://'))
IsRemote(image_path) ==
    startswith(image_path, HttpPrefix) \/ startswith(image_path, HttpsPrefix)

\* _get_image_url with _encode_image_to_base64: [exc, url, read]; read is the
\* set of paths opened (empty for a URL).
_get_image_url(files, image_path) ==
    IF IsRemote(image_path)
    THEN [exc |-> NoExc, url |-> image_path, read |-> << >>]
    ELSE LET r == ReadFile(files, image_path)
         IN  [exc |-> r.exc,
              url |-> IF r.exc = NoExc THEN DataUrlPrefix \o b64encode(r.bytes)
                      ELSE << >>,
              read |-> <<image_path>>]

RECURSIVE ValidFrom(_, _)
ValidFrom(node_inputs, n) ==
    IF n > NumFrameSlots THEN << >>
    ELSE (IF ImgKey(n) \in DOMAIN node_inputs /\ Truthy(node_inputs[ImgKey(n)])
          THEN <<node_inputs[ImgKey(n)]>> ELSE << >>)
         \o ValidFrom(node_inputs, n + 1)

\* Mutant: the loop tests only "img_key in node_inputs", so empty values stay.
_get_valid_image_paths_KeepsEmpty(node_inputs) ==
    LET S == {n \in 1..NumFrameSlots : ImgKey(n) \in DOMAIN node_inputs}
        Nth(k) == CHOOSE n \in S : Cardinality({m \in S : m <= n}) = k
    IN  [k \in 1..Cardinality(S) |-> node_inputs[ImgKey(Nth(k))]]

\* _get_valid_image_paths
_get_valid_image_paths(node_inputs) == ValidFrom(node_inputs, 1)

(***************************************************************************)
(* A frame of execute                                                      *)
(***************************************************************************)
\* What the environment does to one invocation: the step it fails ("ok": none),
\* the text of that failure, and the severities at which the logger raises.
Env(fault, text, logger) == [fault |-> fault, text |-> text, logger |-> logger]

IdleFrame ==
    [pc |-> "idle", node |-> "none", node_inputs |-> EmptyDict,
     env |-> Env("ok", << >>, {}),
     llm_config |-> None, params |-> None, client |-> FALSE,
     image_paths |-> << >>, image_urls |-> << >>, handles |-> << >>,
     request |-> None, response |-> None,
     exc |-> NoExc, outcome |-> None, events |-> << >>, log |-> << >>]

\* An effect of the invocation on the world outside the frame.
Did(f, op, arg) == [f EXCEPT !.events = Append(@, [op |-> op, arg |-> arg])]

\* raise e inside the try block
Raise(f, e) == [f EXCEPT !.exc = e, !.pc = "except"]

LoggerError == Exc("RuntimeError", <<"logger failed">>)

\* workflow_logger.info(msg) followed by the rest of the step
Info(f, msg, rest) ==
    IF "info" \in f.env.logger THEN Raise(f, LoggerError) ELSE rest

Logged(f, level, msg) ==
    [f EXCEPT !.log = Append(@, [level |-> level, msg |-> msg])]

FirstMissing(keys, d) ==
    LET M == {k \in 1..Len(keys) : keys[k] \notin DOMAIN d}
    IN  IF M = {} THEN 0 ELSE CHOOSE k \in M : \A j \in M : k <= j

\* The subscript reads at the top of execute.
ReadInputs(f) ==
    LET keys == RequiredKeys(f.node)
        m == FirstMissing(keys, f.node_inputs)
    IN  IF m # 0 THEN Raise(f, KeyError(keys[m]))
        ELSE [f EXCEPT !.pc = "config"]

\* Mutant: the "at least one image" check is missing.
ReadVideoInputs_NoCheck(f) ==
    ReadInputs([f EXCEPT !.image_paths = _get_valid_image_paths(f.node_inputs)])

\* The video node collects its frames, and requires one, before anything else.
ReadVideoInputs(f) ==
    LET paths == _get_valid_image_paths(f.node_inputs)
        g == [f EXCEPT !.image_paths = paths]
    IN  IF paths = << >>
        THEN Raise(g, Exc("ValueError", <<"At least one image path must be provided">>))
        ELSE ReadInputs(g)

\* Mutant: an id that does not resolve to a usable configuration falls back to
\* the known one instead of raising.
ResolveConfig_Fallback(f) ==
    LET id == f.node_inputs["llm_config_id"]
        msg == <<"Getting LLM configuration for ID: ">> \o id
        g == Did(Logged(f, "info", msg), "get_llm_config_by_id", id)
        llm_config == get_llm_config_by_id(CfgGood)
    IN  [g EXCEPT !.llm_config = llm_config,
                  !.params = get_typed_parameters(llm_config), !.pc = "client"]

\* "Get LLM configuration": the resolver, then the typed parameters.
ResolveConfig(f) ==
    LET id == f.node_inputs["llm_config_id"]
        msg == <<"Getting LLM configuration for ID: ">> \o id
        g == Did(Logged(f, "info", msg), "get_llm_config_by_id", id)
        llm_config == get_llm_config_by_id(id)
        params == get_typed_parameters(llm_config)
    IN  Info(f, msg,
             IF llm_config = None
             THEN Raise(g, Exc("ValueError",
                               <<"LLM configuration not found for ID: ">> \o id))
             ELSE IF params = None
             THEN Raise([g EXCEPT !.llm_config = llm_config],
                        Exc("ValueError",
                            <<"Failed to get typed parameters from LLM configuration">>))
             ELSE [g EXCEPT !.llm_config = llm_config, !.params = params,
                            !.pc = "client"])

\* "Initialize OpenAI client"
InitClient(f) ==
    LET msg == <<"Initializing OpenAI client">>
        g == Did(Logged(f, "info", msg), "OpenAI", f.params.base_url)
    IN  Info(f, msg,
             IF f.env.fault = "client"
             THEN Raise(g, Exc("OpenAIError", f.env.text))
             ELSE [g EXCEPT !.client = TRUE, !.pc = "prepare"])

(***************************************************************************)
(* Between client construction and the API call                            *)
(***************************************************************************)
ReadEvents(read) == [k \in 1..Len(read) |-> [op |-> "read", arg |-> read[k]]]

\* The loop over image_paths of VideoRecognitionNode.execute: it stops at the
\* first frame that cannot be read.
RECURSIVE ResolveFrames(_, _)
ResolveFrames(files, paths) ==
    IF paths = << >> THEN [exc |-> NoExc, urls |-> << >>, read |-> << >>]
    ELSE LET r == _get_image_url(files, Head(paths))
         IN  IF r.exc # NoExc THEN [exc |-> r.exc, urls |-> << >>, read |-> r.read]
             ELSE LET rest == ResolveFrames(files, Tail(paths))
                  IN  [exc |-> rest.exc,
                       urls |-> IF rest.exc = NoExc THEN <<r.url>> \o rest.urls
                                ELSE << >>,
                       read |-> r.read \o rest.read]

\* The directory execute creates: os.path.dirname(os.path.abspath(output_file))
OutputDir(output_file) == dirname(abspath(output_file))

\* "Create output directory if it doesn't exist"
MakeOutputDir(f, files) ==
    LET d == OutputDir(f.node_inputs["output_file"])
        r == makedirs(files, d)
        g == Did(f, "makedirs", d)
    IN  IF r.exc # NoExc THEN [f |-> Raise(g, r.exc), files |-> files]
        ELSE [f |-> [g EXCEPT !.pc = "api"], files |-> r.files]

\* image_url = self._get_image_url(image_path) of ImageRecognitionNode
PrepareImage(f, files) ==
    LET r == _get_image_url(files, f.node_inputs["image_path"])
        g == [f EXCEPT !.events = @ \o ReadEvents(r.read)]
    IN  IF r.exc # NoExc THEN [f |-> Raise(g, r.exc), files |-> files]
        ELSE [f |-> [g EXCEPT !.image_urls = <<r.url>>, !.pc = "api"],
              files |-> files]

\* "Prepare message content with video type"
PrepareFrames(f, files) ==
    LET r == ResolveFrames(files, f.image_paths)
        g == [f EXCEPT !.events = @ \o ReadEvents(r.read)]
    IN  IF r.exc # NoExc THEN [f |-> Raise(g, r.exc), files |-> files]
        ELSE [f |-> [g EXCEPT !.image_urls = r.urls, !.pc = "api"],
              files |-> files]

\* Mutant: language and prompt are passed on whenever the inputs hold them,
\* empty or not.
PrepareAudio_KeepsEmpty(f, files) ==
    LET audio_file == f.node_inputs["audio_file"]
        in == f.node_inputs
        r == ReadFile(files, audio_file)
        g == Did(f, "open", audio_file)
        api_params ==
            MkDict([model |-> {f.llm_config.llm_name},
                    file |-> {audio_file},
                    language |-> IF "language" \in DOMAIN in THEN {in["language"]} ELSE {},
                    prompt |-> IF "prompt" \in DOMAIN in THEN {in["prompt"]} ELSE {}])
    IN  IF r.exc # NoExc THEN [f |-> Raise(g, r.exc), files |-> files]
        ELSE [f |-> [g EXCEPT !.handles = Append(@, audio_file),
                              !.request = api_params, !.pc = "api"],
              files |-> files]

\* "Prepare API call parameters" of SpeechToTextNode: the file is opened and
\* language and prompt are added when they are truthy.
PrepareAudio(f, files) ==
    LET audio_file == f.node_inputs["audio_file"]
        language == DictGet(f.node_inputs, "language", << >>)
        prompt == DictGet(f.node_inputs, "prompt", << >>)
        r == ReadFile(files, audio_file)
        g == Did(f, "open", audio_file)
        api_params ==
            MkDict([model |-> {f.llm_config.llm_name},
                    file |-> {audio_file},
                    language |-> IF Truthy(language) THEN {language} ELSE {},
                    prompt |-> IF Truthy(prompt) THEN {prompt} ELSE {}])
    IN  IF r.exc # NoExc THEN [f |-> Raise(g, r.exc), files |-> files]
        ELSE [f |-> [g EXCEPT !.handles = Append(@, audio_file),
                              !.request = api_params, !.pc = "api"],
              files |-> files]

\* TextGenerationNode only builds its two messages here.
PrepareStep(f, files) ==
    CASE f.node \in FileProducing -> MakeOutputDir(f, files)
      [] f.node = ImageRecognition -> PrepareImage(f, files)
      [] f.node = VideoRecognition -> PrepareFrames(f, files)
      [] f.node = SpeechToText -> PrepareAudio(f, files)
      [] f.node = TextGeneration -> [f |-> [f EXCEPT !.pc = "api"], files |-> files]

(***************************************************************************)
(* The API call                                                            *)
(***************************************************************************)
SendingMessage(node) ==
    CASE node = ImageGeneration -> <<"Sending request to DALL-E model">>
      [] node = SpeechToText -> <<"Sending request to Whisper model">>
      [] node = TextToSpeech -> <<"Sending request to TTS model">>
      [] OTHER -> <<"Sending request to AI model">>

\* The keyword arguments of the client call.
Request(f) ==
    LET in == f.node_inputs
        model == f.llm_config.llm_name
    IN  CASE f.node = TextGeneration ->
               [endpoint |-> "chat.completions", model |-> model,
                messages |->
                  <<[role |-> "system",
                     content |-> DictGet(in, "system_prompt", DefaultSystemPrompt)],
                    [role |-> "user", content |-> in["prompt"]]>>,
                max_tokens |-> DictGet(in, "max_tokens", DefaultMaxTokens),
                temperature |-> DictGet(in, "temperature", DefaultTemperature)]
          [] f.node = ImageGeneration ->
               [endpoint |-> "images.generate", model |-> model,
                prompt |-> in["prompt"], size |-> in["size"],
                quality |-> DictGet(in, "quality", DefaultQuality),
                style |-> DictGet(in, "style", DefaultStyle), n |-> 1]
          [] f.node = ImageRecognition ->
               [endpoint |-> "chat.completions", model |-> model,
                messages |->
                  <<[role |-> "user",
                     content |->
                       <<[type |-> "text", text |-> in["prompt"]],
                         [type |-> "image_url",
                          image_url |-> [url |-> f.image_urls[1]]]>>]>>]
          [] f.node = VideoRecognition ->
               [endpoint |-> "chat.completions", model |-> model,
                messages |->
                  <<[role |-> "user",
                     content |->
                       <<[type |-> "video", video |-> f.image_urls],
                         [type |-> "text", text |-> in["prompt"]]>>]>>]
          [] f.node = SpeechToText ->
               [endpoint |-> "audio.transcriptions", params |-> f.request]
          [] f.node = TextToSpeech ->
               [endpoint |-> "audio.speech", model |-> model,
                voice |-> in["voice"], input |-> in["text"]]

\* What the endpoint sends back when the call itself does not fail.
Reply(node, fault) ==
    CASE node \in {TextGeneration, ImageRecognition, VideoRecognition} ->
               [choices |-> IF fault = "malformed" THEN << >>
                            ELSE <<[message |-> [content |-> CompletionText]]>>]
      [] node = ImageGeneration ->
               [data |-> IF fault = "malformed" THEN << >>
                         ELSE <<[url |-> GeneratedImageUrl]>>]
      [] node = SpeechToText ->
               IF fault = "malformed" THEN [status |-> "unexpected"]
               ELSE [text |-> TranscriptText]
      [] node = TextToSpeech -> [content |-> AudioBytes]

IndexError == Exc("IndexError", <<"list index out of range">>)

\* Mutant: a failed call is tried a second time before the error is raised.
ApiStep_Retry(f) ==
    LET msg == SendingMessage(f.node)
        req == Request(f)
        g == [Did(Logged(f, "info", msg), "api_call", <<req.endpoint>>)
                EXCEPT !.request = req]
        reply == Reply(f.node, f.env.fault)
    IN  IF f.env.fault = "api"
        THEN Raise(Did(g, "api_call", <<req.endpoint>>),
                   Exc("APIConnectionError", f.env.text))
        ELSE IF f.node \in {TextGeneration, ImageRecognition, VideoRecognition}
        THEN IF reply.choices = << >> THEN Raise(g, IndexError)
             ELSE [g EXCEPT !.response = reply.choices[1].message.content,
                            !.pc = "finish"]
        ELSE IF f.node = SpeechToText
        THEN [g EXCEPT !.response = reply, !.pc = "finish"]
        ELSE [g EXCEPT !.response = reply, !.pc = "save"]

\* "Make API call" up to the statement that follows it.
ApiStep(f) ==
    LET msg == SendingMessage(f.node)
        req == Request(f)
        g == [Did(Logged(f, "info", msg), "api_call", <<req.endpoint>>)
                EXCEPT !.request = req]
        reply == Reply(f.node, f.env.fault)
    IN  Info(f, msg,
             IF f.env.fault = "api"
             THEN Raise(g, Exc("APIConnectionError", f.env.text))
             ELSE IF f.node \in {TextGeneration, ImageRecognition, VideoRecognition}
             THEN \* response = completion.choices[0].message.content
                  IF reply.choices = << >> THEN Raise(g, IndexError)
                  ELSE [g EXCEPT !.response = reply.choices[1].message.content,
                                 !.pc = "finish"]
             ELSE IF f.node = SpeechToText
             THEN [g EXCEPT !.response = reply, !.pc = "finish"]
             ELSE [g EXCEPT !.response = reply, !.pc = "save"])

(***************************************************************************)
(* Saving the result of a file-producing node                              *)
(***************************************************************************)
\* Mutant: response.raise_for_status() is missing, the error body is saved.
_download_image_NoStatusCheck(f, files, image_url, output_path) ==
    LET h == Did(Did(f, "http_get", image_url), "write", output_path)
        w == WriteFile(files, output_path, ImageBytes)
    IN  IF w.exc # NoExc THEN [f |-> Raise(h, w.exc), files |-> files]
        ELSE [f |-> [h EXCEPT !.pc = "finish"], files |-> w.files]

\* ImageGenerationNode._download_image: [f, files]
_download_image(f, files, image_url, output_path) ==
    LET g == Did(f, "http_get", image_url)
        h == Did(g, "write", output_path)
        w == WriteFile(files, output_path, ImageBytes)
    IN  IF f.env.fault = "http"
        THEN [f |-> Raise(g, Exc("HTTPError", f.env.text)), files |-> files]
        ELSE IF w.exc # NoExc THEN [f |-> Raise(h, w.exc), files |-> files]
        ELSE [f |-> [h EXCEPT !.pc = "finish"], files |-> w.files]

\* "Download and save the image"
SaveImage(f, files) ==
    IF f.response.data = << >> THEN [f |-> Raise(f, IndexError), files |-> files]
    ELSE _download_image(f, files, f.response.data[1].url,
                         f.node_inputs["output_file"])

\* "Save the audio file": response.stream_to_file(output_file)
SaveAudio(f, files) ==
    LET output_file == f.node_inputs["output_file"]
        g == Did(f, "write", output_file)
        w == WriteFile(files, output_file, f.response.content)
    IN  IF w.exc # NoExc THEN [f |-> Raise(g, w.exc), files |-> files]
        ELSE [f |-> [g EXCEPT !.pc = "finish"], files |-> w.files]

SaveStep(f, files) ==
    IF f.node = ImageGeneration THEN SaveImage(f, files) ELSE SaveAudio(f, files)

(***************************************************************************)
(* Returning                                                               *)
(***************************************************************************)
SuccessMessage(f) ==
    CASE f.node = TextGeneration -> <<"Successfully received AI response">>
      [] f.node = ImageGeneration ->
               <<"Successfully saved image to ">> \o f.node_inputs["output_file"]
      [] f.node = SpeechToText -> <<"Successfully received transcription">>
      [] f.node = TextToSpeech ->
               <<"Successfully saved audio to ">> \o f.node_inputs["output_file"]
      [] OTHER -> <<"Successfully received AI analysis">>

\* Mutant: the file-producing nodes return the absolute path.
SuccessOutcome_AbsPath(f) ==
    CASE f.node = TextGeneration -> [success |-> TRUE, generated_text |-> f.response]
      [] f.node = ImageGeneration ->
               [success |-> TRUE, image_path |-> abspath(f.node_inputs["output_file"])]
      [] f.node = ImageRecognition -> [success |-> TRUE, description |-> f.response]
      [] f.node = VideoRecognition ->
               [success |-> TRUE, description |-> f.response, error_message |-> << >>]
      [] f.node = SpeechToText -> [success |-> TRUE, transcription |-> f.response.text]
      [] f.node = TextToSpeech ->
               [success |-> TRUE, audio_path |-> abspath(f.node_inputs["output_file"])]

\* The dict of the return statement that ends the try block.
SuccessOutcome(f) ==
    CASE f.node = TextGeneration -> [success |-> TRUE, generated_text |-> f.response]
      [] f.node = ImageGeneration ->
               [success |-> TRUE, image_path |-> f.node_inputs["output_file"]]
      [] f.node = ImageRecognition -> [success |-> TRUE, description |-> f.response]
      [] f.node = VideoRecognition ->
               [success |-> TRUE, description |-> f.response, error_message |-> << >>]
      [] f.node = SpeechToText -> [success |-> TRUE, transcription |-> f.response.text]
      [] f.node = TextToSpeech ->
               [success |-> TRUE, audio_path |-> f.node_inputs["output_file"]]

\* The last info message and the return of the try block.  SpeechToTextNode
\* reads transcription.text only here.
FinishStep(f) ==
    LET msg == SuccessMessage(f)
        g == Logged(f, "info", msg)
    IN  Info(f, msg,
             IF f.node = SpeechToText /\ "text" \notin DOMAIN f.response
             THEN Raise(g, Exc("AttributeError", <<"object has no attribute 'text'">>))
             ELSE [g EXCEPT !.outcome = SuccessOutcome(g), !.pc = "done"])

\* Mutant: the clause reads "except ValueError as e".
Catches_ValueErrorOnly(e) == e.type = "ValueError"

\* except Exception as e
Catches(e) == e.type \in ExceptionClasses

\* Mutant: error_msg = str(e)
ErrorMessage_NoPrefix(node, e) == e.text

\* error_msg = f"<prefix>{str(e)}"
ErrorMessage(node, e) == <<ErrorPrefix(node)>> \o e.text

\* The dict the except clause returns.
FailureOutcome(node, error_msg) ==
    IF node = VideoRecognition
    THEN [success |-> FALSE, description |-> << >>, error_message |-> error_msg]
    ELSE [success |-> FALSE, error_message |-> error_msg]

\* Mutant: the except clause logs str(e) and returns the prefixed message.
ExceptStep_LogsException(f) ==
    LET error_msg == ErrorMessage(f.node, f.exc)
    IN  IF ~Catches(f.exc) THEN [f EXCEPT !.pc = "propagated"]
        ELSE IF "error" \in f.env.logger
        THEN [f EXCEPT !.exc = LoggerError, !.pc = "propagated"]
        ELSE [Logged(f, "error", f.exc.text)
                EXCEPT !.outcome = FailureOutcome(f.node, error_msg), !.pc = "done"]

\* The except clause; what it does not catch, and what it raises itself,
\* leaves execute.
ExceptStep(f) ==
    LET error_msg == ErrorMessage(f.node, f.exc)
    IN  IF ~Catches(f.exc) THEN [f EXCEPT !.pc = "propagated"]
        ELSE IF "error" \in f.env.logger
        THEN [f EXCEPT !.exc = LoggerError, !.pc = "propagated"]
        ELSE [Logged(f, "error", error_msg)
                EXCEPT !.outcome = FailureOutcome(f.node, error_msg), !.pc = "done"]

(***************************************************************************)
(* Actions                                                                 *)
(***************************************************************************)
\* The frame of a call execute(node_inputs, workflow_logger) as it starts.
NewFrame(node, node_inputs, env) ==
    [IdleFrame EXCEPT !.pc = "inputs", !.node = node,
                      !.node_inputs = node_inputs, !.env = env]

GetInputs(i) ==
    /\ frame[i].pc = "inputs"
    /\ frame' = [frame EXCEPT ![i] =
                   IF @.node = VideoRecognition THEN ReadVideoInputs(@)
                   ELSE ReadInputs(@)]
    /\ UNCHANGED fs

GetConfig(i) ==
    /\ frame[i].pc = "config"
    /\ frame' = [frame EXCEPT ![i] = ResolveConfig(@)]
    /\ UNCHANGED fs

MakeClient(i) ==
    /\ frame[i].pc = "client"
    /\ frame' = [frame EXCEPT ![i] = InitClient(@)]
    /\ UNCHANGED fs

Prepare(i) ==
    /\ frame[i].pc = "prepare"
    /\ LET r == PrepareStep(frame[i], fs)
       IN  /\ frame' = [frame EXCEPT ![i] = r.f]
           /\ fs' = r.files

CallApi(i) ==
    /\ frame[i].pc = "api"
    /\ frame' = [frame EXCEPT ![i] = ApiStep(@)]
    /\ UNCHANGED fs

Save(i) ==
    /\ frame[i].pc = "save"
    /\ LET r == SaveStep(frame[i], fs)
       IN  /\ frame' = [frame EXCEPT ![i] = r.f]
           /\ fs' = r.files

Finish(i) ==
    /\ frame[i].pc = "finish"
    /\ frame' = [frame EXCEPT ![i] = FinishStep(@)]
    /\ UNCHANGED fs

Except(i) ==
    /\ frame[i].pc = "except"
    /\ frame' = [frame EXCEPT ![i] = ExceptStep(@)]
    /\ UNCHANGED fs

(***************************************************************************)
(* The invocations the host makes                                          *)
(***************************************************************************)
UrlHttp == HttpPrefix \o <<"u">>
UrlHttps == HttpsPrefix \o <<"u">>
UrlHttpV == HttpPrefix \o <<"v">>
UrlHttpsW == HttpsPrefix \o <<"w">>
\* Not a URL for startswith, which compares case: a local path that does not exist.
UrlUpper == <<"H", "T", "T", "P", ":", "/", "/", "u">>

Prompt == <<"Write a haiku">>
ConfigIds == {CfgGood, CfgNoParams, CfgUnknown}
OutputFiles == {OutA, OutB, OutC, OutD, OutE}

Opt(S) == {{}} \cup {{v} : v \in S}

FaultTexts == {<< >>, <<"Connection error.">>}

\* The failures the environment can produce for a node, the logger working.
Envs(node) ==
    {Env("ok", << >>, {}), Env("client", <<"Missing credentials">>, {})}
    \cup {Env("api", t, {}) : t \in FaultTexts}
    \cup (IF node = TextToSpeech THEN {} ELSE {Env("malformed", << >>, {})})
    \cup (IF node = ImageGeneration THEN {Env("http", <<"404 Client Error">>, {})}
          ELSE {})

TextInputs ==
    {MkDict([prompt |-> p, system_prompt |-> s, max_tokens |-> m,
             temperature |-> t, llm_config_id |-> c]) :
        p \in Opt({Prompt}), s \in Opt({<<"Be brief">>}), m \in Opt({50}),
        t \in Opt({2}), c \in Opt(ConfigIds)}

ImageGenInputs ==
    {MkDict([prompt |-> p, size |-> z, quality |-> q, style |-> s,
             output_file |-> o, llm_config_id |-> c]) :
        p \in Opt({Prompt}), z \in Opt({<<"1024x1024">>}), q \in Opt({<<"hd">>}),
        s \in Opt({<<"natural">>}), o \in Opt(OutputFiles), c \in Opt(ConfigIds)}

ImageRecInputs ==
    {MkDict([image_path |-> r, prompt |-> p, llm_config_id |-> c]) :
        r \in Opt({UrlHttp, UrlHttps, UrlUpper, FileX, FileY, OutA, OutD}),
        p \in Opt({Prompt}), c \in Opt(ConfigIds)}

SpeechToTextInputs ==
    {MkDict([audio_file |-> a, language |-> l, prompt |-> p, llm_config_id |-> c]) :
        a \in Opt({FileX, OutA}), l \in Opt({<< >>, <<"en">>}),
        p \in Opt({<< >>, Prompt}), c \in Opt(ConfigIds)}

TextToSpeechInputs ==
    {MkDict([text |-> t, voice |-> v, output_file |-> o, llm_config_id |-> c]) :
        t \in Opt({Prompt}), v \in Opt({<<"alloy">>}), o \in Opt(OutputFiles),
        c \in Opt(ConfigIds)}

\* The reference slot n carries when it is set: local files and URLs, mixed.
FrameRef(n) ==
    <<FileX, UrlHttp, FileY, UrlHttps, UrlHttpV, FileX, FileY, UrlHttpsW>>[n]

\* Every slot is absent, empty or set; img2 may also name a file that is missing.
FramePatterns ==
    LET P == [1..NumFrameSlots -> {"absent", "empty", "set"}]
    IN  P \cup {[pat EXCEPT ![2] = "missing"] : pat \in P}

FrameDict(pat) ==
    LET S == {n \in 1..NumFrameSlots : pat[n] # "absent"}
    IN  [key \in {ImgKey(n) : n \in S} |->
            LET n == CHOOSE n \in S : ImgKey(n) = key
            IN  IF pat[n] = "empty" THEN << >>
                ELSE IF pat[n] = "missing" THEN UrlUpper
                ELSE FrameRef(n)]

FewFrames ==
    {EmptyDict, [img1 |-> << >>, img2 |-> << >>], [img1 |-> UrlHttp],
     [img2 |-> FileY, img3 |-> UrlHttps]}

\* Every pattern of the eight slots with a good configuration, and a few
\* patterns with every prompt and configuration.
VideoInputs ==
    {FrameDict(pat) @@ [prompt |-> Prompt, llm_config_id |-> CfgGood] :
        pat \in FramePatterns}
    \cup {d @@ MkDict([prompt |-> p, llm_config_id |-> c]) :
             d \in FewFrames, p \in Opt({Prompt}), c \in Opt(ConfigIds)}

Inputs(node) ==
    CASE node = TextGeneration -> TextInputs
      [] node = ImageGeneration -> ImageGenInputs
      [] node = ImageRecognition -> ImageRecInputs
      [] node = VideoRecognition -> VideoInputs
      [] node = SpeechToText -> SpeechToTextInputs
      [] node = TextToSpeech -> TextToSpeechInputs

(***************************************************************************)
(* One invocation at a time                                                *)
(***************************************************************************)
Init ==
    /\ frame = [i \in Calls |-> IdleFrame]
    /\ fs = InitFiles

\* The statements of execute, one block at a time.
Run(i) ==
    \/ GetInputs(i)
    \/ GetConfig(i)
    \/ MakeClient(i)
    \/ Prepare(i)
    \/ CallApi(i)
    \/ Save(i)
    \/ Finish(i)
    \/ Except(i)

\* The host calls execute of a node.
Invoke(i) ==
    /\ frame[i].pc = "idle"
    /\ \E node \in Nodes : \E in \in Inputs(node) : \E env \in Envs(node) :
          frame' = [frame EXCEPT ![i] = NewFrame(node, in, env)]
    /\ UNCHANGED fs

Next == Invoke(1) \/ Run(1)

Spec == Init /\ [][Next]_vars

(***************************************************************************)
(* Several invocations in flight                                           *)
(***************************************************************************)
\* The calls a host may have in flight together: every node, two files saved
\* into the same new directory, readers of a file another call saves, a file
\* saved where another call needs a directory, and a reader of that path.
ConcInvocations ==
    {[node |-> ImageGeneration, env |-> Env("ok", << >>, {}),
      node_inputs |-> [prompt |-> Prompt, size |-> <<"1024x1024">>,
                       output_file |-> OutA, llm_config_id |-> CfgGood]],
     [node |-> TextToSpeech, env |-> Env("ok", << >>, {}),
      node_inputs |-> [text |-> Prompt, voice |-> <<"alloy">>,
                       output_file |-> OutT, llm_config_id |-> CfgGood]],
     [node |-> TextToSpeech, env |-> Env("ok", << >>, {}),
      node_inputs |-> [text |-> Prompt, voice |-> <<"alloy">>,
                       output_file |-> OutArt, llm_config_id |-> CfgGood]],
     [node |-> ImageRecognition, env |-> Env("ok", << >>, {}),
      node_inputs |-> [image_path |-> OutA, prompt |-> Prompt,
                       llm_config_id |-> CfgGood]],
     [node |-> VideoRecognition, env |-> Env("ok", << >>, {}),
      node_inputs |-> [img1 |-> UrlHttp, img2 |-> FileY, prompt |-> Prompt,
                       llm_config_id |-> CfgGood]],
     [node |-> ImageRecognition, env |-> Env("ok", << >>, {}),
      node_inputs |-> [image_path |-> OutArt, prompt |-> Prompt,
                       llm_config_id |-> CfgGood]],
     [node |-> SpeechToText, env |-> Env("ok", << >>, {}),
      node_inputs |-> [audio_file |-> FileX, llm_config_id |-> CfgGood]],
     [node |-> SpeechToText, env |-> Env("ok", << >>, {}),
      node_inputs |-> [audio_file |-> OutT, language |-> <<"en">>,
                       llm_config_id |-> CfgGood]],
     [node |-> TextGeneration, env |-> Env("api", <<"Connection error.">>, {}),
      node_inputs |-> [prompt |-> Prompt, llm_config_id |-> CfgGood]]}

ConcInvoke(i) ==
    /\ frame[i].pc = "idle"
    /\ \E v \in ConcInvocations :
          frame' = [frame EXCEPT ![i] = NewFrame(v.node, v.node_inputs, v.env)]
    /\ UNCHANGED fs

\* The calls advance in any order, one block of statements at a time.
ConcNext == \E i \in Calls : ConcInvoke(i) \/ Run(i)

SpecConc == Init /\ [][ConcNext]_vars

(***************************************************************************)
(* Properties                                                              *)
(***************************************************************************)
Ops(f) == {f.events[k].op : k \in DOMAIN f.events}

CountOps(f, S) == Cardinality({k \in DOMAIN f.events : f.events[k].op \in S})

\* Position of the first event with this op, 0 when there is none.
FirstOp(f, op) ==
    LET K == {k \in DOMAIN f.events : f.events[k].op = op}
    IN  IF K = {} THEN 0 ELSE CHOOSE k \in K : \A j \in K : k <= j

IsFailure(o) ==
    /\ "success" \in DOMAIN o /\ o.success = FALSE
    /\ "error_message" \in DOMAIN o /\ o.error_message \in Seq(STRING)

\* C1: whatever a step of execute raises (a missing key, an unknown
\* configuration, missing typed parameters, the client constructor, a file
\* read or write, the remote call, a malformed response), execute returns a
\* record with success = false and an error_message; nothing leaves execute
\* as an exception.
C1_FailuresBecomeOutcomes ==
    \A i \in Calls :
        /\ frame[i].pc # "propagated"
        /\ (frame[i].pc = "done" /\ frame[i].exc # NoExc) => IsFailure(frame[i].outcome)
        /\ (frame[i].pc = "done" /\ frame[i].env.fault # "ok"
              /\ "api_call" \in Ops(frame[i])) => IsFailure(frame[i].outcome)

\* C1 witness: a malformed image-generation response (no data) has been turned
\* into a failure outcome.
C1_Witness ==
    \E i \in Calls :
        /\ frame[i].pc = "done" /\ frame[i].node = ImageGeneration
        /\ frame[i].exc.type = "IndexError"
        /\ IsFailure(frame[i].outcome)

\* The configuration named by the inputs cannot be resolved.
ConfigUnusable(in) ==
    /\ "llm_config_id" \in DOMAIN in
    /\ \/ get_llm_config_by_id(in["llm_config_id"]) = None
       \/ get_llm_config_by_id(in["llm_config_id"]).typed = None

\* C2: once the resolver has been asked for a configuration that is unknown or
\* has no typed parameters, the invocation constructs no client, creates no
\* directory, makes no network call and writes no file, and what it returns is a
\* failure with a non-empty error_message.
C2_ConfigFailureBeforeEffects ==
    \A i \in Calls :
        ("get_llm_config_by_id" \in Ops(frame[i]) /\ ConfigUnusable(frame[i].node_inputs))
        => /\ Ops(frame[i]) \cap {"OpenAI", "makedirs", "api_call", "http_get", "write"} = {}
           /\ frame[i].pc \in {"except", "done"}
           /\ frame[i].pc = "done" =>
                 /\ IsFailure(frame[i].outcome)
                 /\ Len(frame[i].outcome.error_message) > 0

\* C2 witness: text to speech returned after its configuration had no typed
\* parameters.
C2_Witness ==
    \E i \in Calls :
        /\ frame[i].pc = "done" /\ frame[i].node = TextToSpeech
        /\ "llm_config_id" \in DOMAIN frame[i].node_inputs
        /\ frame[i].node_inputs["llm_config_id"] = CfgNoParams
        /\ "get_llm_config_by_id" \in Ops(frame[i])
        /\ frame[i].outcome.success = FALSE

\* None of img1..img8 is present with a non-empty value.
NoFrames(in) ==
    \A n \in 1..NumFrameSlots : ImgKey(n) \notin DOMAIN in \/ in[ImgKey(n)] = << >>

\* C3: a video invocation without any non-empty frame never calls the
\* configuration resolver and fails on the frame check itself, also when prompt
\* or llm_config_id are missing.
C3_FrameCheckBeforeConfig ==
    \A i \in Calls :
        (frame[i].node = VideoRecognition /\ NoFrames(frame[i].node_inputs)
            /\ frame[i].pc # "inputs")
        => /\ "get_llm_config_by_id" \notin Ops(frame[i])
           /\ frame[i].pc \in {"except", "done"}
           /\ frame[i].exc =
                 Exc("ValueError", <<"At least one image path must be provided">>)
           /\ frame[i].pc = "done" => IsFailure(frame[i].outcome)

\* C3 witness: such an invocation, with img1 and img2 empty and no
\* llm_config_id at all, has returned.
C3_Witness ==
    \E i \in Calls :
        /\ frame[i].pc = "done" /\ frame[i].node = VideoRecognition
        /\ NoFrames(frame[i].node_inputs)
        /\ "img1" \in DOMAIN frame[i].node_inputs
        /\ "llm_config_id" \notin DOMAIN frame[i].node_inputs
        /\ frame[i].outcome.success = FALSE

NonEmptySlots(in) ==
    {n \in 1..NumFrameSlots : ImgKey(n) \in DOMAIN in /\ in[ImgKey(n)] # << >>}

\* The place of slot n among the slots of S.
Rank(S, n) == Cardinality({m \in S : m <= n})

\* The "video" block of the chat request of the video node.
BundledFrames(f) == f.request.messages[1].content[1].video

\* A reference that begins with http:// or https://
HasHttpScheme(ref) ==
    \E pre \in {HttpPrefix, HttpsPrefix} :
        Len(ref) >= Len(pre) /\ \A k \in 1..Len(pre) : ref[k] = pre[k]

\* What the request carries for a reference: the URL itself, or the file's
\* bytes as a base64 data URL.
SentForm(files, ref) ==
    IF HasHttpScheme(ref) THEN ref
    ELSE DataUrlPrefix \o b64encode(Lookup(files, abspath(ref)).bytes)

\* C4: the frames the video node collects, and those its request bundles, are
\* the non-empty values of img1..img8 in slot order, one entry per non-empty
\* slot (a local file in its data-URL form); the request carries between 1 and
\* 8 of them.
C4_FramesInSlotOrder ==
    \A i \in Calls :
        frame[i].node = VideoRecognition =>
            LET in == frame[i].node_inputs
                S == NonEmptySlots(in)
            IN  /\ frame[i].pc \notin {"idle", "inputs"} =>
                      /\ Len(frame[i].image_paths) = Cardinality(S)
                      /\ \A n \in S : frame[i].image_paths[Rank(S, n)] = in[ImgKey(n)]
                /\ "api_call" \in Ops(frame[i]) =>
                      /\ Len(BundledFrames(frame[i])) = Cardinality(S)
                      /\ Len(BundledFrames(frame[i])) \in 1..NumFrameSlots
                      /\ \A n \in S : BundledFrames(frame[i])[Rank(S, n)]
                                        = SentForm(fs, in[ImgKey(n)])

\* C4 witness: img1 and img3 set, img2 empty; the request carries the frame of
\* img1, then that of img3.
C4_Witness ==
    \E i \in Calls :
        /\ frame[i].node = VideoRecognition /\ "api_call" \in Ops(frame[i])
        /\ NonEmptySlots(frame[i].node_inputs) = {1, 3}
        /\ "img2" \in DOMAIN frame[i].node_inputs
        /\ frame[i].image_paths = <<FileX, FileY>>
        /\ BundledFrames(frame[i]) =
              <<DataUrlPrefix \o <<"T", "W", "F", "u">>,
                DataUrlPrefix \o <<"a", "G", "k", "=">>>>

\* The references of an image or video invocation, and what its request carries.
References(f) ==
    IF f.node = ImageRecognition THEN <<f.node_inputs["image_path"]>>
    ELSE f.image_paths

SentReferences(f) ==
    IF f.node = ImageRecognition
    THEN <<f.request.messages[1].content[2].image_url.url>>
    ELSE BundledFrames(f)

\* C5: image and video recognition send a reference that starts with http://
\* or https:// as it is and read no file for it; any other reference is read
\* from disk and sent as data:image/jpeg;base64,<base64 of the bytes>; each
\* frame of the video node is decided on its own.
C5_UrlOrDataUrl ==
    \A i \in Calls :
        frame[i].node \in {ImageRecognition, VideoRecognition} =>
            /\ \A k \in DOMAIN frame[i].events :
                  frame[i].events[k].op = "read" => ~HasHttpScheme(frame[i].events[k].arg)
            /\ "api_call" \in Ops(frame[i]) =>
                  LET refs == References(frame[i])
                      sent == SentReferences(frame[i])
                  IN  /\ Len(sent) = Len(refs)
                      /\ \A k \in 1..Len(refs) :
                            /\ sent[k] = SentForm(fs, refs[k])
                            /\ ~HasHttpScheme(refs[k]) =>
                                  [op |-> "read", arg |-> refs[k]]
                                      \in {frame[i].events[e] : e \in DOMAIN frame[i].events}

\* C5 witness: a video request whose first frame is the local file in/x and
\* whose second frame is a URL.
C5_Witness ==
    \E i \in Calls :
        /\ frame[i].node = VideoRecognition /\ "api_call" \in Ops(frame[i])
        /\ frame[i].image_paths = <<FileX, UrlHttp>>
        /\ BundledFrames(frame[i]) = <<DataUrlPrefix \o <<"T", "W", "F", "u">>, UrlHttp>>
        /\ CountOps(frame[i], {"read"}) = 1

\* C6: image generation and text to speech create the output directory before
\* the API call and hence before the file is written, and a success returns
\* the caller's output_file unchanged.
C6_DirectoryFirstPathUnchanged ==
    \A i \in Calls :
        frame[i].node \in FileProducing =>
            LET f == frame[i]
                dir == dirname(abspath(f.node_inputs["output_file"]))
            IN  /\ "api_call" \in Ops(f) =>
                      /\ 0 < FirstOp(f, "makedirs")
                      /\ FirstOp(f, "makedirs") < FirstOp(f, "api_call")
                      /\ f.events[FirstOp(f, "makedirs")].arg = dir
                      /\ Lookup(fs, dir).kind = "dir"
                /\ "write" \in Ops(f) =>
                      /\ 0 < FirstOp(f, "api_call")
                      /\ FirstOp(f, "api_call") < FirstOp(f, "write")
                /\ (f.pc = "done" /\ f.outcome.success) =>
                      f.outcome[OutputKey(f.node)] = f.node_inputs["output_file"]

\* C6 witness: image generation succeeded for the relative path art/a, whose
\* directory did not exist before.
C6_Witness ==
    \E i \in Calls :
        /\ frame[i].pc = "done" /\ frame[i].node = ImageGeneration
        /\ frame[i].outcome.success
        /\ frame[i].outcome["image_path"] = OutA
        /\ InitFiles[abspath(<<"art">>)].kind = "none"
        /\ fs[abspath(<<"art">>)].kind = "dir"
        /\ fs[abspath(OutA)] = FileEntry(ImageBytes)

\* The bytes a file-producing node saves.
SavedBytes(node) == IF node = ImageGeneration THEN ImageBytes ELSE AudioBytes

\* C7: every outcome has a boolean success; with success it has the node's
\* declared output, without it a string error_message; and a success is
\* returned only after the remote call (and, for image generation and text to
\* speech, the download and the file write) went through without error.
C7_OutcomeShape ==
    \A i \in Calls :
        frame[i].pc = "done" =>
            LET f == frame[i]
                o == f.outcome
            IN  /\ "success" \in DOMAIN o /\ o.success \in BOOLEAN
                /\ ~o.success =>
                      "error_message" \in DOMAIN o /\ o.error_message \in Seq(STRING)
                /\ o.success =>
                      /\ OutputKey(f.node) \in DOMAIN o
                      /\ f.env.fault = "ok"
                      /\ f.exc = NoExc
                      /\ "api_call" \in Ops(f)
                      /\ f.node \in FileProducing =>
                            /\ "write" \in Ops(f)
                            /\ Lookup(fs, abspath(f.node_inputs["output_file"]))
                                  = FileEntry(SavedBytes(f.node))

\* C7 witness: text to speech returned success and the audio is on disk.
C7_Witness ==
    \E i \in Calls :
        /\ frame[i].pc = "done" /\ frame[i].node = TextToSpeech
        /\ frame[i].outcome.success
        /\ frame[i].outcome["audio_path"] = OutB
        /\ fs[abspath(OutB)] = FileEntry(AudioBytes)

\* C8: every outcome of the video node has exactly success, description and
\* error_message; error_message is empty exactly when success is true, and
\* description is empty when success is false.
C8_VideoOutcomeFields ==
    \A i \in Calls :
        (frame[i].pc = "done" /\ frame[i].node = VideoRecognition) =>
            LET o == frame[i].outcome
            IN  /\ DOMAIN o = {"success", "description", "error_message"}
                /\ o.success \in BOOLEAN
                /\ (o.error_message = << >>) <=> o.success
                /\ ~o.success => o.description = << >>

\* C8 witness: the video node failed on an API error whose text is empty.
C8_Witness ==
    \E i \in Calls :
        /\ frame[i].pc = "done" /\ frame[i].node = VideoRecognition
        /\ frame[i].exc = Exc("APIConnectionError", << >>)
        /\ frame[i].outcome = [success |-> FALSE, description |-> << >>,
                               error_message |-> <<"Video recognition failed: ">>]

\* C9 as claimed: no invocation makes more than one outbound network call, and
\* only a file-producing node writes a file, at most once.
C9_Original_OneNetworkCall ==
    \A i \in Calls :
        /\ CountOps(frame[i], {"api_call", "http_get"}) <= 1
        /\ CountOps(frame[i], {"write"})
              <= (IF frame[i].node \in FileProducing THEN 1 ELSE 0)

\* C9 as amended: an invocation makes at most one API call; image generation
\* alone then makes at most one HTTP GET for the image, after the API call; the
\* file-producing nodes create at most one directory and write at most one
\* file, the other nodes none.
C9_OneApiCallOneDownload ==
    \A i \in Calls :
        LET f == frame[i]
        IN  /\ CountOps(f, {"api_call"}) <= 1
            /\ CountOps(f, {"http_get"}) <= (IF f.node = ImageGeneration THEN 1 ELSE 0)
            /\ "http_get" \in Ops(f) =>
                  /\ 0 < FirstOp(f, "api_call")
                  /\ FirstOp(f, "api_call") < FirstOp(f, "http_get")
            /\ CountOps(f, {"api_call", "http_get"})
                  <= (IF f.node = ImageGeneration THEN 2 ELSE 1)
            /\ CountOps(f, {"write"}) <= (IF f.node \in FileProducing THEN 1 ELSE 0)
            /\ CountOps(f, {"makedirs"}) <= (IF f.node \in FileProducing THEN 1 ELSE 0)

\* C9 witness: image generation returned after its API call, its download and
\* its file write.
C9_Witness ==
    \E i \in Calls :
        /\ frame[i].pc = "done" /\ frame[i].node = ImageGeneration
        /\ CountOps(frame[i], {"api_call"}) = 1
        /\ CountOps(frame[i], {"http_get"}) = 1
        /\ CountOps(frame[i], {"write"}) = 1
        /\ frame[i].outcome.success

(***************************************************************************)
(* An invocation run alone                                                 *)
(***************************************************************************)
\* The block of statements a frame is at, applied to the frame and the files.
StepFrame(f, files) ==
    CASE f.pc = "inputs" ->
             [f |-> IF f.node = VideoRecognition THEN ReadVideoInputs(f)
                    ELSE ReadInputs(f),
              files |-> files]
      [] f.pc = "config" -> [f |-> ResolveConfig(f), files |-> files]
      [] f.pc = "client" -> [f |-> InitClient(f), files |-> files]
      [] f.pc = "prepare" -> PrepareStep(f, files)
      [] f.pc = "api" -> [f |-> ApiStep(f), files |-> files]
      [] f.pc = "save" -> SaveStep(f, files)
      [] f.pc = "finish" -> [f |-> FinishStep(f), files |-> files]
      [] f.pc = "except" -> [f |-> ExceptStep(f), files |-> files]

RECURSIVE RunAlone(_, _)
RunAlone(f, files) ==
    IF f.pc \in {"done", "propagated"} THEN f
    ELSE LET r == StepFrame(f, files) IN RunAlone(r.f, r.files)

\* What the call of frame f returns when nothing else runs: same inputs, same
\* configuration, same remote responses, the files as they were at the start.
OutcomeAlone(f) ==
    RunAlone(NewFrame(f.node, f.node_inputs, f.env), InitFiles).outcome

\* The absolute paths of the files a call names: its local image, frame or
\* audio inputs and its output file.
InputPaths(f) ==
    LET in == f.node_inputs
    IN  CASE f.node = ImageRecognition ->
               IF HasHttpScheme(in["image_path"]) THEN {} ELSE {abspath(in["image_path"])}
          [] f.node = VideoRecognition ->
               {abspath(in[ImgKey(n)]) :
                   n \in {m \in NonEmptySlots(in) : ~HasHttpScheme(in[ImgKey(m)])}}
          [] f.node = SpeechToText -> {abspath(in["audio_file"])}
          [] OTHER -> {}

OutputPaths(f) ==
    IF f.node \in FileProducing THEN {abspath(f.node_inputs["output_file"])} ELSE {}

\* An output path of f is a file path of g, lies under one, or is a directory
\* above one.
PathConflict(f, g) ==
    \E o \in OutputPaths(f) : \E p \in InputPaths(g) \cup OutputPaths(g) :
        o \in Lineage(p) \/ p \in Lineage(o)

Started(i) == frame[i].pc # "idle"

\* C10 as claimed: whenever the calls in flight write to distinct output
\* paths, a call returns what it returns when run alone.
C10_Original_DistinctOutputs ==
    \A i \in Calls :
        (/\ frame[i].pc = "done"
         /\ \A j \in Calls \ {i} : \A k \in Calls \ {j} :
               (Started(j) /\ Started(k)) =>
                   OutputPaths(frame[j]) \cap OutputPaths(frame[k]) = {})
        => frame[i].outcome = OutcomeAlone(frame[i])

\* C10 as amended: whenever no call's output path is a file path another call
\* reads or writes, lies under one, or is a directory above one, a call
\* returns what it returns when run alone, however the calls interleave.
C10_IndependentWithoutPathConflict ==
    \A i \in Calls :
        (/\ frame[i].pc = "done"
         /\ \A j \in Calls : \A k \in Calls \ {j} :
               (Started(j) /\ Started(k)) => ~PathConflict(frame[j], frame[k]))
        => frame[i].outcome = OutcomeAlone(frame[i])

\* C10 witness: image generation and text to speech, in flight together, both
\* saved into the directory art/ that neither found, and both returned what
\* they return alone.
C10_Witness ==
    \E i \in Calls : \E j \in Calls \ {i} :
        /\ frame[i].pc = "done" /\ frame[i].node = ImageGeneration
        /\ frame[j].pc = "done" /\ frame[j].node = TextToSpeech
        /\ ~PathConflict(frame[i], frame[j]) /\ ~PathConflict(frame[j], frame[i])
        /\ frame[i].outcome = [success |-> TRUE, image_path |-> OutA]
        /\ frame[j].outcome = [success |-> TRUE, audio_path |-> OutT]
        /\ fs[abspath(OutA)].kind = "file" /\ fs[abspath(OutT)].kind = "file"
        /\ \A k \in Calls \ {i, j} : ~Started(k)

(***************************************************************************)
(* One invocation at a time, whatever the logger does                      *)
(***************************************************************************)
\* The severities at which a workflow_logger handed to execute may raise.
LoggerFaults == SUBSET {"info", "error"}

\* The environment of Envs with every logger.
LoggerEnvs(node) ==
    {Env(e.fault, e.text, L) : e \in Envs(node), L \in LoggerFaults}

\* The inputs of Inputs, the video node with a few frame patterns only.
LoggerInputs(node) ==
    IF node = VideoRecognition
    THEN {d @@ MkDict([prompt |-> p, llm_config_id |-> c]) :
             d \in FewFrames, p \in Opt({Prompt}), c \in Opt(ConfigIds)}
    ELSE Inputs(node)

LoggerInvoke(i) ==
    /\ frame[i].pc = "idle"
    /\ \E node \in Nodes : \E in \in LoggerInputs(node) : \E env \in LoggerEnvs(node) :
          frame' = [frame EXCEPT ![i] = NewFrame(node, in, env)]
    /\ UNCHANGED fs

LoggerNext == LoggerInvoke(1) \/ Run(1)

SpecLogger == Init /\ [][LoggerNext]_vars

\* The messages logged at error severity, in order.
ErrorsLogged(f) ==
    LET E == {k \in 1..Len(f.log) : f.log[k].level = "error"}
        nth(n) == CHOOSE k \in E : Cardinality({j \in E : j <= k}) = n
    IN  [n \in 1..Cardinality(E) |-> f.log[nth(n)].msg]

\* The prefixes as the specification spells them.
StatedPrefix(node) ==
    CASE node = TextGeneration -> "Text generation failed: "
      [] node = ImageGeneration -> "Image generation failed: "
      [] node = ImageRecognition -> "Image recognition failed: "
      [] node = VideoRecognition -> "Video recognition failed: "
      [] node = SpeechToText -> "Speech to text conversion failed: "
      [] node = TextToSpeech -> "Text to speech conversion failed: "

\* C11: when execute returns a failure outcome, exactly one message was logged
\* at error severity in that invocation, it is the outcome's error_message,
\* and it begins with the node's prefix; when execute returns a success
\* outcome, nothing was logged at error severity.
C11_OneErrorLogEqualsMessage ==
    \A i \in Calls :
        frame[i].pc = "done" =>
            LET f == frame[i]
                errs == ErrorsLogged(f)
            IN  IF f.outcome.success
                THEN errs = << >>
                ELSE /\ Len(errs) = 1
                     /\ errs[1] = f.outcome.error_message
                     /\ startswith(f.outcome.error_message, <<StatedPrefix(f.node)>>)

\* C11 witness: speech to text was given an audio path that does not exist,
\* and returned the failure whose message begins "Speech to text conversion
\* failed: ", logged once at error severity.
C11_Witness ==
    \E i \in Calls :
        /\ frame[i].pc = "done" /\ frame[i].node = SpeechToText
        /\ frame[i].exc.type = "FileNotFoundError"
        /\ "open" \in Ops(frame[i])
        /\ frame[i].outcome.success = FALSE
        /\ frame[i].outcome.error_message[1] = "Speech to text conversion failed: "
        /\ ErrorsLogged(frame[i]) = <<frame[i].outcome.error_message>>

\* The same call with a logger that accepts every message.
WithQuietLogger(f) ==
    RunAlone(NewFrame(f.node, f.node_inputs, Env(f.env.fault, f.env.text, {})),
             InitFiles)

\* C12 as claimed: for the same inputs, configuration and remote responses,
\* execute performs the same steps and returns the same outcome whatever the
\* logger does with the messages it is given, a failing logger call included.
C12_Original_LoggerObservational ==
    \A i \in Calls :
        frame[i].pc \in {"done", "propagated"} =>
            LET quiet == WithQuietLogger(frame[i])
            IN  /\ frame[i].pc = quiet.pc
                /\ frame[i].outcome = quiet.outcome
                /\ frame[i].events = quiet.events

(***************************************************************************)
(* Invocations as coroutines of one event loop                             *)
(***************************************************************************)
\* Mutant: the client call and the saving of the result are awaited.
AwaitPoints_NetworkCalls == {"api", "save"}

\* The blocks of execute that begin with an await expression.  No execute
\* body holds one: the client is the synchronous OpenAI client and the
\* download is requests.get.
AwaitPoints == {}

\* A coroutine runs from where it stands to its next await or to its return.
RECURSIVE RunToAwait(_, _)
RunToAwait(f, files) ==
    LET r == StepFrame(f, files)
    IN  IF r.f.pc \in {"done", "propagated"} THEN r
        ELSE IF r.f.pc \in AwaitPoints
        THEN [f |-> Did(r.f, "await", <<r.f.pc>>), files |-> r.files]
        ELSE RunToAwait(r.f, r.files)

\* The event loop gives control to the coroutine of call i.
Resume(i) ==
    /\ frame[i].pc \notin {"idle", "done", "propagated"}
    /\ LET r == RunToAwait(frame[i], fs)
       IN  /\ frame' = [frame EXCEPT ![i] = r.f]
           /\ fs' = r.files

LoopNext == \E i \in Calls : ConcInvoke(i) \/ Resume(i)

SpecLoop == Init /\ [][LoopNext]_vars

\* Control was given up at block pc before the event op of f.
AwaitedBefore(f, pc, op) ==
    \E k \in 1..Len(f.events) :
        /\ f.events[k] = [op |-> "await", arg |-> <<pc>>]
        /\ k < FirstOp(f, op)

\* C13 as claimed: execute gives up control at its outbound network call and,
\* in image generation, at the download that follows, and nowhere else.
C13_Original_AwaitsAtNetworkCalls ==
    \A i \in Calls :
        LET f == frame[i]
        IN  /\ "api_call" \in Ops(f) => AwaitedBefore(f, "api", "api_call")
            /\ "http_get" \in Ops(f) => AwaitedBefore(f, "save", "http_get")
            /\ \A k \in 1..Len(f.events) :
                  f.events[k].op = "await" =>
                      \/ f.events[k].arg = <<"api">>
                      \/ f.node = ImageGeneration /\ f.events[k].arg = <<"save">>

\* A coroutine that was created and has not been given control yet.
NotStarted(f) == f.pc = "inputs" /\ f.events = << >> /\ f.log = << >>

\* C13 as amended: execute has no suspension point.  A call that has been
\* given control runs to its return, network call and download included,
\* without giving control up; the other calls of the loop run only before it
\* starts or after it has returned.
C13_RunsToReturnWithoutYield ==
    \A i \in Calls :
        /\ \/ frame[i].pc \in {"idle", "done", "propagated"}
           \/ NotStarted(frame[i])
        /\ "await" \notin Ops(frame[i])

\* C13 witness: image generation made its API call and its download and
\* returned while another call, created before it, was still waiting to be
\* given control.
C13_Witness ==
    \E i \in Calls : \E j \in Calls \ {i} :
        /\ frame[i].pc = "done" /\ frame[i].node = ImageGeneration
        /\ [k \in 1..Len(frame[i].events) |-> frame[i].events[k].op]
              = <<"get_llm_config_by_id", "OpenAI", "makedirs",
                  "api_call", "http_get", "write">>
        /\ frame[i].outcome.success
        /\ NotStarted(frame[j])

(***************************************************************************)
(* The transcription request                                               *)
(***************************************************************************)
\* The input is there and is not the empty string.
Given(in, key) == key \in DOMAIN in /\ in[key] # << >>

\* C14: the transcription request of speech to text carries the model of the
\* configuration and the opened audio file, a language field exactly when the
\* language input is present and non-empty, a prompt field exactly when the
\* prompt input is present and non-empty, and nothing else; the audio file is
\* opened only after the configuration was resolved and the client was
\* constructed; the transcript text is returned under transcription.
C14_TranscriptionRequest ==
    \A i \in Calls :
        LET f == frame[i]
            in == f.node_inputs
        IN  f.node = SpeechToText =>
              /\ "open" \in Ops(f) =>
                    /\ 0 < FirstOp(f, "get_llm_config_by_id")
                    /\ FirstOp(f, "get_llm_config_by_id") < FirstOp(f, "OpenAI")
                    /\ FirstOp(f, "OpenAI") < FirstOp(f, "open")
                    /\ f.llm_config # None /\ f.params # None /\ f.client
              /\ "api_call" \in Ops(f) =>
                    LET sent == f.request.params
                    IN  /\ f.request.endpoint = "audio.transcriptions"
                        /\ {"model", "file"} \subseteq DOMAIN sent
                        /\ DOMAIN sent \subseteq {"model", "file", "language", "prompt"}
                        /\ sent["model"] = get_llm_config_by_id(in["llm_config_id"]).llm_name
                        /\ sent["file"] = in["audio_file"]
                        /\ FirstOp(f, "open") < FirstOp(f, "api_call")
                        /\ "language" \in DOMAIN sent <=> Given(in, "language")
                        /\ "language" \in DOMAIN sent => sent["language"] = in["language"]
                        /\ "prompt" \in DOMAIN sent <=> Given(in, "prompt")
                        /\ "prompt" \in DOMAIN sent => sent["prompt"] = in["prompt"]
              /\ (f.pc = "done" /\ f.outcome.success) =>
                    /\ "api_call" \in Ops(f)
                    /\ f.outcome = [success |-> TRUE, transcription |-> TranscriptText]

\* C14 witness: a transcription returned for a request that carried the
\* language "en" and no prompt, the prompt input being the empty string.
C14_Witness ==
    \E i \in Calls :
        /\ frame[i].pc = "done" /\ frame[i].node = SpeechToText
        /\ "language" \in DOMAIN frame[i].node_inputs
        /\ frame[i].node_inputs["language"] = <<"en">>
        /\ "prompt" \in DOMAIN frame[i].node_inputs
        /\ frame[i].node_inputs["prompt"] = << >>
        /\ "api_call" \in Ops(frame[i])
        /\ DOMAIN frame[i].request.params = {"model", "file", "language"}
        /\ frame[i].outcome = [success |-> TRUE, transcription |-> TranscriptText]

(***************************************************************************)
(* File handles                                                            *)
(***************************************************************************)
\* execute neither closes the file it opened for api_params nor opens it in
\* a with statement: the handle stays open until the runtime finalizes the
\* file object, which it may do at any time after the call has ended, or
\* never.
Collect(i) ==
    /\ frame[i].pc \in {"done", "propagated"}
    /\ frame[i].handles # << >>
    /\ frame' = [frame EXCEPT ![i].handles = << >>]
    /\ UNCHANGED fs

HandlesNext == Invoke(1) \/ Run(1) \/ Collect(1)

SpecHandles == Init /\ [][HandlesNext]_vars

\* C15 as claimed: every audio file handle an invocation of speech to text
\* opened is closed by the time execute returns, on the success path and on
\* the failure path.
C15_Original_HandlesClosedAtReturn ==
    \A i \in Calls :
        (frame[i].node = SpeechToText /\ frame[i].pc \in {"done", "propagated"})
            => frame[i].handles = << >>

====
